---- MODULE Spec2Model ----
(***************************************************************************)
(* cronx: a single-job cron scheduler with graceful shutdown               *)
(* (src/cronx.go).  The model follows main(), create(), the onTick         *)
(* callback registered with c.AddFunc, execute() and stop().  The          *)
(* library objects the program shares between goroutines are modelled by   *)
(* what the calls in cronx.go do to them:                                  *)
(*   - the context (cancel / <-ctx.Done()),                                *)
(*   - the robfig/cron scheduler (AddFunc / Start / Stop; every due tick   *)
(*     starts the job in a goroutine of its own),                          *)
(*   - the sync.WaitGroup (Add / Done / Wait, with its counter, its waiter *)
(*     count, its semaphore and its misuse panics),                        *)
(*   - os/signal (Notify on a channel of capacity 1; a SIGINT or SIGTERM   *)
(*     that arrives while no Notify is registered terminates the process). *)
(***************************************************************************)
EXTENDS Integers, Sequences, FiniteSets, TLC

\* ---------------------------------------------------------------- bounds
MaxTicks   == 3      \* ticks the schedule fires during one run
MaxSignals == 2      \* SIGINT/SIGTERM deliveries during one run
MaxArgc    == 4      \* largest len(os.Args) tried

\* ------------------------------------------------------ program constants
minArgs    == 3      \* cronx.go:41

Jobs       == 1..MaxTicks
Signals    == {"SIGINT", "SIGTERM"}

\* Schedule expressions tried as os.Args[1], and the verdict of parser.Parse
\* (cron.SecondOptional | Minute | Hour | Dom | Month | Dow | Descriptor).
Schedules  == {"* * * * *", "@daily", "* * * * 8", "@sometimes"}
\* (variant: the parse error is not checked)
ParseOk_AcceptAll(schedule) == TRUE
ParseOk(schedule) == schedule \in {"* * * * *", "@daily"}

VARIABLES
    argc,         \* len(os.Args)
    argv1,        \* os.Args[1] (meaningful when argc >= 2)
    pc,           \* position of the main goroutine
    termination,  \* "none" | "exit" | "panic" | "signal": how the process ended
    exitStatus,   \* exit status once terminated by exit or panic, else -1
    usageShown,   \* the usage message was printed
    versionShown, \* showVersion was called
    parsed,       \* parser.Parse was called on the schedule
    cronArmed,    \* c.AddFunc registered the callback
    cronRunning,  \* the cron run loop is started and not stopped
    ctxDone,      \* cancel() was called: ctx.Done() is closed
    wgCount,      \* WaitGroup counter
    wgWaiters,    \* WaitGroup waiter count
    wgSema,       \* WaitGroup semaphore
    notifyOn,     \* signal.Notify(sigChan, SIGINT, SIGTERM) is registered
    sigChan,      \* the buffered signal channel
    nSignals,     \* signals delivered so far
    jpc,          \* position of each callback goroutine
    sel,          \* outcome of each callback's select on ctx.Done()
    result        \* outcome of each callback's execute()

vars == <<argc, argv1, pc, termination, exitStatus, usageShown, versionShown,
          parsed, cronArmed, cronRunning, ctxDone, wgCount, wgWaiters, wgSema,
          notifyOn, sigChan, nSignals, jpc, sel, result>>

mainVars   == <<pc, usageShown, versionShown, parsed>>
cronVars   == <<cronArmed, cronRunning>>
wgVars     == <<wgCount, wgWaiters, wgSema>>
sigVars    == <<notifyOn, sigChan, nSignals>>
jobVars    == <<jpc, sel, result>>
endVars    == <<termination, exitStatus>>
argVars    == <<argc, argv1>>

Alive == termination = "none"

\* The lifecycle state of section 4.6, read off the position of main().
lifecycle ==
    CASE pc = "main"                                   -> "Starting"
      [] pc = "create"                                 -> "Validating"
      [] pc \in {"start", "notify", "recv"}            -> "Running"
      [] pc \in {"cancel", "stop", "wait", "sema", "exit"} -> "ShuttingDown"
      [] pc = "done"                                   -> "Stopped"

Init ==
    /\ argc \in 1..MaxArgc
    /\ argv1 \in Schedules \cup {"version"}
    /\ pc = "main"
    /\ termination = "none"
    /\ exitStatus = -1
    /\ usageShown = FALSE
    /\ versionShown = FALSE
    /\ parsed = FALSE
    /\ cronArmed = FALSE
    /\ cronRunning = FALSE
    /\ ctxDone = FALSE
    /\ wgCount = 0
    /\ wgWaiters = 0
    /\ wgSema = 0
    /\ notifyOn = FALSE
    /\ sigChan = <<>>
    /\ nSignals = 0
    /\ jpc = [j \in Jobs |-> "idle"]
    /\ sel = [j \in Jobs |-> "none"]
    /\ result = [j \in Jobs |-> "none"]

\* os.Exit(code), or main returning (code 0).
Exit(code) ==
    /\ termination' = "exit"
    /\ exitStatus' = code

\* An unrecovered panic in any goroutine ends the process with status 2.
Panic ==
    /\ termination' = "panic"
    /\ exitStatus' = 2

\* ------------------------------------------------------------------ main
\* main, lines 110-123: the version branch, the usage branch, the arguments.
IsVersion == argc >= 2 /\ argv1 = "version"
\* (variant: the usage branch also rejects a schedule and a command alone)
TooFewArgs_NeedsExtraArg == argc <= minArgs
TooFewArgs == argc < minArgs

Main_Args ==
    /\ Alive /\ pc = "main"
    /\ IF IsVersion
         THEN /\ versionShown' = TRUE
              /\ Exit(0)
              /\ pc' = "done"
              /\ UNCHANGED usageShown
         ELSE IF TooFewArgs
         THEN /\ usageShown' = TRUE
              /\ Exit(1)
              /\ pc' = "done"
              /\ UNCHANGED versionShown
         ELSE /\ pc' = "create"
              /\ UNCHANGED <<usageShown, versionShown, endVars>>
    /\ UNCHANGED <<parsed, cronVars, ctxDone, wgVars, sigVars, jobVars, argVars>>

\* (variant: line 126 calls cancel() at once instead of deferring it)
Main_Create_CancelNotDeferred ==
    /\ Alive /\ pc = "create"
    /\ parsed' = TRUE
    /\ ctxDone' = TRUE
    /\ IF ParseOk(argv1)
         THEN /\ cronArmed' = TRUE
              /\ pc' = "start"
              /\ UNCHANGED endVars
         ELSE /\ Exit(1)
              /\ pc' = "done"
              /\ UNCHANGED cronArmed
    /\ UNCHANGED <<usageShown, versionShown, cronRunning, wgVars,
                   sigVars, jobVars, argVars>>

\* main lines 125-132 with create, lines 59-89: parse the schedule; on error
\* log and os.Exit(1); otherwise cron.New and c.AddFunc.  The cancel deferred
\* at line 126 never runs: every way out of main past that line is os.Exit.
Main_Create ==
    /\ Alive /\ pc = "create"
    /\ parsed' = TRUE
    /\ IF ParseOk(argv1)
         THEN /\ cronArmed' = TRUE
              /\ pc' = "start"
              /\ UNCHANGED endVars
         ELSE /\ Exit(1)
              /\ pc' = "done"
              /\ UNCHANGED cronArmed
    /\ UNCHANGED <<usageShown, versionShown, cronRunning, ctxDone, wgVars,
                   sigVars, jobVars, argVars>>

\* main line 134: c.Start().
Main_Start ==
    /\ Alive /\ pc = "start"
    /\ cronRunning' = TRUE
    /\ pc' = "notify"
    /\ UNCHANGED <<usageShown, versionShown, parsed, cronArmed, ctxDone,
                   wgVars, sigVars, jobVars, endVars, argVars>>

\* main lines 136-137: sigChan := make(chan os.Signal, 1); signal.Notify.
SigChanCap == 1      \* cronx.go:136

Main_Notify ==
    /\ Alive /\ pc = "notify"
    /\ notifyOn' = TRUE
    /\ pc' = "recv"
    /\ UNCHANGED <<usageShown, versionShown, parsed, cronVars, ctxDone, wgVars,
                   sigChan, nSignals, jobVars, endVars, argVars>>

\* main lines 138-139: sig := <-sigChan blocks until a signal is buffered.
Main_Recv ==
    /\ Alive /\ pc = "recv"
    /\ Len(sigChan) > 0
    /\ sigChan' = Tail(sigChan)
    /\ pc' = "cancel"
    /\ UNCHANGED <<usageShown, versionShown, parsed, cronVars, ctxDone, wgVars,
                   notifyOn, nSignals, jobVars, endVars, argVars>>

\* main line 141: cancel().
Main_Cancel ==
    /\ Alive /\ pc = "cancel"
    /\ ctxDone' = TRUE
    /\ pc' = "stop"
    /\ UNCHANGED <<usageShown, versionShown, parsed, cronVars, wgVars, sigVars,
                   jobVars, endVars, argVars>>

\* stop line 94: c.Stop() hands the stop request to the run loop and returns;
\* the run loop starts no job afterwards.  It does not wait for started jobs
\* (the context it returns is dropped).
Stop_CronStop ==
    /\ Alive /\ pc = "stop"
    /\ cronRunning' = FALSE
    /\ pc' = "wait"
    /\ UNCHANGED <<usageShown, versionShown, parsed, cronArmed, ctxDone, wgVars,
                   sigVars, jobVars, endVars, argVars>>

\* stop line 96: wg.Wait().  With the counter at 0 it returns at once;
\* otherwise it registers as a waiter and sleeps on the semaphore.
\* (variant: the wait gives up and returns whatever the counter is)
WaitReturnsAtOnce_Always(count) == TRUE
WaitReturnsAtOnce(count) == count = 0

Stop_WgWait ==
    /\ Alive /\ pc = "wait"
    /\ IF WaitReturnsAtOnce(wgCount)
         THEN /\ pc' = "exit"
              /\ UNCHANGED wgVars
         ELSE /\ wgWaiters' = wgWaiters + 1
              /\ pc' = "sema"
              /\ UNCHANGED <<wgCount, wgSema>>
    /\ UNCHANGED <<usageShown, versionShown, parsed, cronVars, ctxDone, sigVars,
                   jobVars, endVars, argVars>>

\* stop line 96, the waiter woken: wg.Wait() returns if the WaitGroup state is
\* still zero, and panics ("WaitGroup is reused before previous Wait has
\* returned") if an Add slipped in after the release.
Stop_WgWake ==
    /\ Alive /\ pc = "sema"
    /\ wgSema > 0
    /\ wgSema' = wgSema - 1
    /\ IF wgCount = 0 /\ wgWaiters = 0
         THEN /\ pc' = "exit"
              /\ UNCHANGED endVars
         ELSE /\ Panic
              /\ pc' = "done"
    /\ UNCHANGED <<usageShown, versionShown, parsed, cronVars, ctxDone, wgCount,
                   wgWaiters, sigVars, jobVars, argVars>>

\* (variant: the shutdown path exits with status 1)
Main_Exit_Status1 ==
    /\ Alive /\ pc = "exit"
    /\ Exit(1)
    /\ pc' = "done"
    /\ UNCHANGED <<usageShown, versionShown, parsed, cronVars, ctxDone, wgVars,
                   sigVars, jobVars, argVars>>

\* main line 143: os.Exit(0).
Main_Exit ==
    /\ Alive /\ pc = "exit"
    /\ Exit(0)
    /\ pc' = "done"
    /\ UNCHANGED <<usageShown, versionShown, parsed, cronVars, ctxDone, wgVars,
                   sigVars, jobVars, argVars>>

\* ---------------------------------------------------------------- signals
\* The operating system delivers SIGINT or SIGTERM.  With signal.Notify
\* registered (line 137) the signal is sent to sigChan without blocking: it is
\* buffered if there is room and dropped otherwise.  Before line 137 the
\* default disposition applies and the process is terminated by the signal.
\* (variant: the handler is dropped once shutdown has begun, so a further
\* signal gets the default disposition)
Signal_SecondKills(s) ==
    /\ Alive
    /\ nSignals < MaxSignals
    /\ nSignals' = nSignals + 1
    /\ IF notifyOn /\ ~ctxDone
         THEN /\ sigChan' = IF Len(sigChan) < SigChanCap
                              THEN Append(sigChan, s) ELSE sigChan
              /\ UNCHANGED <<pc, endVars>>
         ELSE /\ termination' = "signal"
              /\ pc' = "done"
              /\ UNCHANGED <<sigChan, exitStatus>>
    /\ UNCHANGED <<usageShown, versionShown, parsed, cronVars, ctxDone, wgVars,
                   notifyOn, jobVars, argVars>>

Signal(s) ==
    /\ Alive
    /\ nSignals < MaxSignals
    /\ nSignals' = nSignals + 1
    /\ IF notifyOn
         THEN /\ sigChan' = IF Len(sigChan) < SigChanCap
                              THEN Append(sigChan, s) ELSE sigChan
              /\ UNCHANGED <<pc, endVars>>
         ELSE /\ termination' = "signal"
              /\ pc' = "done"
              /\ UNCHANGED <<sigChan, exitStatus>>
    /\ UNCHANGED <<usageShown, versionShown, parsed, cronVars, ctxDone, wgVars,
                   notifyOn, jobVars, argVars>>

\* ------------------------------------------------------------- tick source
\* The cron run loop (started by c.Start, line 134): at each matching instant
\* it starts the registered callback in a new goroutine and goes on to the
\* next instant without waiting for it.
NextJob == CHOOSE j \in Jobs : jpc[j] = "idle" /\ \A k \in Jobs : k < j => jpc[k] # "idle"

\* (variant: the run loop keeps dispatching after c.Stop() has returned)
Cron_Tick_IgnoresStop ==
    /\ Alive
    /\ cronArmed /\ (cronRunning \/ ctxDone)
    /\ \E j \in Jobs : jpc[j] = "idle"
    /\ jpc' = [jpc EXCEPT ![NextJob] = "add"]
    /\ UNCHANGED <<mainVars, cronVars, ctxDone, wgVars, sigVars, sel, result,
                   endVars, argVars>>

\* (variant: the run loop waits for the previous job before the next tick)
Cron_Tick_Serial ==
    /\ Alive
    /\ cronArmed /\ cronRunning
    /\ \E j \in Jobs : jpc[j] = "idle"
    /\ \A j \in Jobs : jpc[j] \in {"idle", "fin"}
    /\ jpc' = [jpc EXCEPT ![NextJob] = "add"]
    /\ UNCHANGED <<mainVars, cronVars, ctxDone, wgVars, sigVars, sel, result,
                   endVars, argVars>>

Cron_Tick ==
    /\ Alive
    /\ cronArmed /\ cronRunning
    /\ \E j \in Jobs : jpc[j] = "idle"
    /\ jpc' = [jpc EXCEPT ![NextJob] = "add"]
    /\ UNCHANGED <<mainVars, cronVars, ctxDone, wgVars, sigVars, sel, result,
                   endVars, argVars>>

\* ------------------------------------------------------- onTick callback
\* Line 75: wg.Add(1).  The counter is incremented atomically; Add panics
\* ("WaitGroup misuse: Add called concurrently with Wait") when it raises the
\* counter from 0 while a waiter is still registered.
AddMisuse(count, waiters) == waiters # 0 /\ count = 1

Job_Add(j) ==
    /\ Alive /\ jpc[j] = "add"
    /\ wgCount' = wgCount + 1
    /\ IF AddMisuse(wgCount + 1, wgWaiters)
         THEN /\ Panic
              /\ pc' = "done"
              /\ jpc' = [jpc EXCEPT ![j] = "panic"]
         ELSE /\ jpc' = [jpc EXCEPT ![j] = "select"]
              /\ UNCHANGED <<pc, endVars>>
    /\ UNCHANGED <<usageShown, versionShown, parsed, cronVars, ctxDone,
                   wgWaiters, wgSema, sigVars, sel, result, argVars>>

\* Lines 78-81: select { case <-ctx.Done(): return; default: execute }.  A
\* closed ctx.Done() is ready, and default is taken only when no case is.
\* (variant: the callback does not look at ctx.Done())
SelectCase_NoCheck(done) == "default"
SelectCase(done) == IF done THEN "cancelled" ELSE "default"

\* The ctx.Done() case returns, which runs the deferred wg.Done(); the default
\* case calls execute.
\* (variant: the cancelled return skips wg.Done())
AfterSelect_ReturnNoDone(case) == IF case = "cancelled" THEN "fin" ELSE "run"
AfterSelect(case) == IF case = "cancelled" THEN "defer" ELSE "run"

Job_Select(j) ==
    /\ Alive /\ jpc[j] = "select"
    /\ sel' = [sel EXCEPT ![j] = SelectCase(ctxDone)]
    /\ jpc' = [jpc EXCEPT ![j] = AfterSelect(SelectCase(ctxDone))]
    /\ UNCHANGED <<mainVars, cronVars, ctxDone, wgVars, sigVars, result,
                   endVars, argVars>>

\* Lines 82-84 with execute, lines 45-56: cmd.Run() returns when the command
\* has terminated; an error (the command could not be started, or exited with
\* a failure status) is logged and absorbed.
\* (variant: the error branch returns past the deferred wg.Done())
Job_Execute_FailSkipsDone(j, ok) ==
    /\ Alive /\ jpc[j] = "run"
    /\ result' = [result EXCEPT ![j] = IF ok THEN "ok" ELSE "failed"]
    /\ jpc' = [jpc EXCEPT ![j] = IF ok THEN "defer" ELSE "fin"]
    /\ UNCHANGED <<mainVars, cronVars, ctxDone, wgVars, sigVars, sel, endVars,
                   argVars>>

\* (variant: a failed command ends the process with status 1)
Job_Execute_Fatal(j, ok) ==
    /\ Alive /\ jpc[j] = "run"
    /\ result' = [result EXCEPT ![j] = IF ok THEN "ok" ELSE "failed"]
    /\ jpc' = [jpc EXCEPT ![j] = "defer"]
    /\ IF ok THEN UNCHANGED <<pc, endVars>>
             ELSE Exit(1) /\ pc' = "done"
    /\ UNCHANGED <<usageShown, versionShown, parsed, cronVars, ctxDone, wgVars,
                   sigVars, sel, argVars>>

Job_Execute(j, ok) ==
    /\ Alive /\ jpc[j] = "run"
    /\ result' = [result EXCEPT ![j] = IF ok THEN "ok" ELSE "failed"]
    /\ jpc' = [jpc EXCEPT ![j] = "defer"]
    /\ UNCHANGED <<mainVars, cronVars, ctxDone, wgVars, sigVars, sel, endVars,
                   argVars>>

\* Line 76, the deferred wg.Done(): the counter is decremented atomically.
\* When that brings it to 0 with a waiter registered, Done goes on to release
\* the waiter.
\* (variant: the callback returns without wg.Done())
Job_Done_Forgotten(j) ==
    /\ Alive /\ jpc[j] = "defer"
    /\ jpc' = [jpc EXCEPT ![j] = "fin"]
    /\ UNCHANGED <<mainVars, cronVars, ctxDone, wgVars, sigVars, sel, result,
                   endVars, argVars>>

Job_Done(j) ==
    /\ Alive /\ jpc[j] = "defer"
    /\ wgCount' = wgCount - 1
    /\ jpc' = [jpc EXCEPT ![j] = IF wgCount - 1 = 0 /\ wgWaiters > 0
                                   THEN "release" ELSE "fin"]
    /\ UNCHANGED <<mainVars, cronVars, ctxDone, wgWaiters, wgSema, sigVars,
                   sel, result, endVars, argVars>>

\* Line 76, wg.Done() releasing the waiter: if the state changed since the
\* decrement it panics ("WaitGroup misuse: Add called concurrently with
\* Wait"); otherwise it resets the state and signals the semaphore once per
\* waiter.  (With a single waiter the state can only have been changed by an
\* Add, and that Add has panicked itself: see AddMisuse.)
Job_DoneRelease(j) ==
    /\ Alive /\ jpc[j] = "release"
    /\ IF wgCount # 0
         THEN /\ Panic
              /\ pc' = "done"
              /\ UNCHANGED <<wgVars, jpc>>
         ELSE /\ wgWaiters' = 0
              /\ wgSema' = wgSema + wgWaiters
              /\ jpc' = [jpc EXCEPT ![j] = "fin"]
              /\ UNCHANGED <<wgCount, pc, endVars>>
    /\ UNCHANGED <<usageShown, versionShown, parsed, cronVars, ctxDone,
                   sigVars, sel, result, argVars>>

Next ==
    \/ Main_Args
    \/ Main_Create
    \/ Main_Start
    \/ Main_Notify
    \/ Main_Recv
    \/ Main_Cancel
    \/ Stop_CronStop
    \/ Stop_WgWait
    \/ Stop_WgWake
    \/ Main_Exit
    \/ \E s \in Signals : Signal(s)
    \/ Cron_Tick
    \/ \E j \in Jobs : Job_Add(j)
    \/ \E j \in Jobs : Job_Select(j)
    \/ \E j \in Jobs, ok \in BOOLEAN : Job_Execute(j, ok)
    \/ \E j \in Jobs : Job_Done(j)
    \/ \E j \in Jobs : Job_DoneRelease(j)

Spec == Init /\ [][Next]_vars

TypeOK ==
    /\ pc \in {"main", "create", "start", "notify", "recv", "cancel", "stop",
               "wait", "sema", "exit", "done"}
    /\ termination \in {"none", "exit", "panic", "signal"}
    /\ exitStatus \in {-1, 0, 1, 2}
    /\ wgCount \in 0..MaxTicks /\ wgWaiters \in 0..1 /\ wgSema \in 0..1
    /\ Len(sigChan) <= SigChanCap
    /\ jpc \in [Jobs -> {"idle", "add", "select", "run", "defer", "release", "fin",
                        "panic"}]
    /\ sel \in [Jobs -> {"none", "cancelled", "default"}]
    /\ result \in [Jobs -> {"none", "ok", "failed"}]

\* Fair scheduling: the Go scheduler runs every runnable goroutine, and every
\* started command terminates (Job_Execute).  Signals and ticks are events of
\* the environment and are not forced.
Fairness ==
    /\ WF_vars(Main_Args) /\ WF_vars(Main_Create) /\ WF_vars(Main_Start)
    /\ WF_vars(Main_Notify) /\ WF_vars(Main_Recv) /\ WF_vars(Main_Cancel)
    /\ WF_vars(Stop_CronStop) /\ WF_vars(Stop_WgWait) /\ WF_vars(Stop_WgWake)
    /\ WF_vars(Main_Exit)
    /\ \A j \in Jobs :
          /\ WF_vars(Job_Add(j)) /\ WF_vars(Job_Select(j))
          /\ WF_vars(\E ok \in BOOLEAN : Job_Execute(j, ok))
          /\ WF_vars(Job_Done(j)) /\ WF_vars(Job_DoneRelease(j))

FairSpec == Init /\ [][Next]_vars /\ Fairness

\* ------------------------------------------------------------ vocabulary
\* The callback has executed wg.Add(1) (enter).
DidEnter(j) == jpc[j] \in {"select", "run", "defer", "release", "fin", "panic"}
\* The callback has executed wg.Done() (exit).
DidExit(j) == jpc[j] \in {"release", "fin"}
\* enter calls not yet matched by an exit call.
InFlight == {j \in Jobs : DidEnter(j) /\ ~DidExit(j)}
\* The callback passed the cancellation check and its command has not finished.
PassedUnfinished(j) == sel[j] = "default" /\ result[j] = "none"
\* The process ended after the shutdown path had begun (cancel was called).
EndedInShutdown == ~Alive /\ ctxDone

\* ================================================================ claims

\* C1: graceful shutdown waits for in-flight work.  Whenever the process has
\* ended after the shutdown path began (cancel, c.Stop, wg.Wait, exit), no
\* callback that passed the cancellation check is left with its command
\* unfinished, and when a callback did pass the check the exit status is 0.
C1_ShutdownWaitsAndExitsZero ==
    EndedInShutdown =>
        /\ \A j \in Jobs : ~PassedUnfinished(j)
        /\ (\E j \in Jobs : sel[j] = "default") => exitStatus = 0

\* The waiting half of C1 on its own: however the process ends once cancel
\* was called, every callback that passed the check has finished its command.
ShutdownWaitsForPassed ==
    EndedInShutdown => \A j \in Jobs : ~PassedUnfinished(j)

\* A callback passed the check, was waited for and ran to completion, and
\* the process then exited through os.Exit(0).
WaitedThenExited ==
    /\ termination = "exit" /\ ctxDone
    /\ \E j \in Jobs : sel[j] = "default" /\ result[j] # "none"

\* C2: no new work after shutdown begins.  A callback whose cancellation
\* check is evaluated with the context cancelled takes the ctx.Done() case,
\* and a callback that took that case never runs the command.
C2_NoNewWorkAfterCancel ==
    /\ [][\A j \in Jobs :
            (jpc[j] = "select" /\ jpc'[j] # "select" /\ ctxDone)
                => (sel'[j] = "cancelled" /\ jpc'[j] # "run")]_vars
    /\ [](\A j \in Jobs :
            sel[j] = "cancelled" => (result[j] = "none" /\ jpc[j] # "run"))

\* A callback dispatched before c.Stop returned found the context cancelled
\* and finished without running the command.
C2_SkippedAfterCancel ==
    \E j \in Jobs : sel[j] = "cancelled" /\ jpc[j] = "fin" /\ result[j] = "none"

C4_CountIsEntersMinusExits ==
    /\ wgCount >= 0
    /\ wgCount = Cardinality(InFlight)

\* Two callbacks overlap while main is already blocked in wg.Wait, and a
\* third has come and gone.
C4_OverlapDuringDrain ==
    /\ pc = "sema" /\ wgCount = 2
    /\ \E j \in Jobs : DidExit(j)

\* C5: execution errors are non-fatal.  The step in which a command fails
\* changes nothing but that callback (main stays where it is, the tick source
\* stays armed and started, the context is not cancelled, the process does
\* not end), and while the lifecycle is Running after a failure the tick
\* source can still dispatch the next tick and a dispatched callback still
\* goes on to run the command.
C5_ExecErrorNonFatal ==
    /\ [][\A j \in Jobs :
            (jpc[j] = "run" /\ result'[j] = "failed")
                => /\ pc' = pc /\ termination' = termination
                   /\ exitStatus' = exitStatus
                   /\ cronArmed' = cronArmed /\ cronRunning' = cronRunning
                   /\ ctxDone' = ctxDone
                   /\ jpc'[j] = "defer"]_vars
    /\ [](((\E j \in Jobs : result[j] = "failed") /\ pc \in {"notify", "recv"})
            => /\ cronArmed /\ cronRunning /\ ~ctxDone /\ Alive
               /\ (\E k \in Jobs : jpc[k] = "idle") => ENABLED Cron_Tick
               /\ \A k \in Jobs :
                     /\ jpc[k] = "add" => ENABLED Job_Add(k)
                     /\ jpc[k] = "select" =>
                           ENABLED (Job_Select(k) /\ jpc'[k] = "run"))

\* The first command failed and finished; the scheduler is still Running and
\* a later tick's callback is executing the command.
C5_RunsAfterFailure ==
    /\ result[1] = "failed" /\ jpc[1] = "fin"
    /\ lifecycle = "Running" /\ cronRunning /\ ~ctxDone
    /\ jpc[2] = "run"

\* C6: when schedule validation fails the lifecycle goes from Validating
\* directly to Stopped with exit status 1: the tick source is never armed or
\* started, no tick is dispatched, no command runs, nothing is cancelled.
BadSchedules == {"* * * * 8", "@sometimes"}

C6_InvalidScheduleStops ==
    /\ []((argv1 \in BadSchedules)
            => /\ ~cronArmed /\ ~cronRunning /\ ~ctxDone /\ ~notifyOn
               /\ \A j \in Jobs : jpc[j] = "idle" /\ result[j] = "none"
               /\ wgCount = 0)
    /\ []((argv1 \in BadSchedules /\ parsed)
            => (pc = "done" /\ termination = "exit" /\ exitStatus = 1))
    /\ [][(argv1 \in BadSchedules /\ lifecycle = "Validating"
              /\ lifecycle' # "Validating")
            => lifecycle' = "Stopped"]_vars

\* The schedule "* * * * 8" was parsed, rejected, and the process exited 1.
C6_RejectedDayOfWeek ==
    /\ argv1 = "* * * * 8" /\ argc >= minArgs /\ parsed
    /\ lifecycle = "Stopped" /\ exitStatus = 1

\* C7 as stated: an invocation with exactly a schedule and a command
\* (len(os.Args) = 3) is rejected with the usage message and exit status 1
\* before validation or scheduling.
C7_TwoArgsRejected ==
    (argc = 3 /\ argv1 \in Schedules)
        => /\ pc \in {"main", "done"}
           /\ ~parsed /\ ~cronArmed
           /\ (termination = "exit" => (usageShown /\ exitStatus = 1))

\* C7 amended: an invocation with fewer than two arguments (a schedule with
\* no command, or nothing at all) is rejected with the usage message and exit
\* status 1 before validation or scheduling; one with a schedule and a
\* command and no further arguments is accepted and never shown the usage.
C7_FewerThanTwoArgsRejected ==
    /\ (argc < 3 /\ ~IsVersion)
          => /\ pc \in {"main", "done"}
             /\ ~parsed /\ ~cronArmed /\ ~cronRunning
             /\ \A j \in Jobs : jpc[j] = "idle"
             /\ (termination = "exit" => (usageShown /\ exitStatus = 1))
    /\ (argc >= 3 /\ ~IsVersion)
          => /\ ~usageShown
             /\ pc # "main" => (parsed \/ pc = "create" \/ termination = "signal")

\* A schedule without a command was rejected with the usage message.
C7_ScheduleOnlyRejected ==
    /\ argc = 2 /\ argv1 \in Schedules
    /\ usageShown /\ termination = "exit" /\ exitStatus = 1

\* The tick source has been started (c.Start was called).
TickSourceStarted == cronRunning \/ (cronArmed /\ ctxDone)

\* C8: every SIGINT or SIGTERM delivered once the tick source has been
\* started leads through the shutdown sequence; so a process that has ended
\* after c.Start did so by exit 0, with the context cancelled, the tick
\* source stopped and the WaitGroup drained.
C8_SignalAlwaysDrains ==
    (TickSourceStarted /\ ~Alive)
        => /\ termination = "exit" /\ exitStatus = 0
           /\ ctxDone /\ ~cronRunning /\ wgCount = 0

\* What does hold for C8: a signal that reached sigChan (delivered after
\* signal.Notify, also before main blocks on the channel) is never lost:
\* the shutdown path begins.
BufferedSignalStartsShutdown ==
    (Alive /\ Len(sigChan) > 0 /\ pc \in {"recv"}) ~> ctxDone

\* C9: under fair scheduling, once a termination signal has been received
\* while Running and every started command terminates, the process reaches
\* Stopped with exit status 0.
C9_ShutdownEndsWithExitZero ==
    (pc = "cancel") ~> (lifecycle = "Stopped" /\ exitStatus = 0)

\* What does hold for C9: the shutdown path never blocks forever; the process
\* always ends, by os.Exit(0) or by a WaitGroup panic.
ShutdownAlwaysEnds ==
    (pc = "cancel") ~> (lifecycle = "Stopped" /\ termination \in {"exit", "panic"})

\* Position of a lifecycle state in Starting, Validating, Running,
\* ShuttingDown, Stopped.
Rank(l) ==
    CASE l = "Starting" -> 0 [] l = "Validating" -> 1 [] l = "Running" -> 2
      [] l = "ShuttingDown" -> 3 [] l = "Stopped" -> 4

C11_CancelOneWayOnShutdownPath ==
    /\ [][ctxDone => ctxDone']_vars
    /\ [][ctxDone' # ctxDone =>
            (pc = "cancel" /\ pc' = "stop" /\ nSignals >= 1)]_vars
    /\ [](ctxDone => (lifecycle \in {"ShuttingDown", "Stopped"} /\ nSignals >= 1))
    /\ [](pc = "cancel" => ~ctxDone)

\* The context was cancelled on the shutdown path and is still cancelled
\* after the process has exited.
C11_StillCancelledAtExit ==
    ctxDone /\ termination = "exit" /\ exitStatus = 0

\* C12: every callback that called enter calls exit exactly once when it
\* finishes, on the success path, the failure path and the cancelled path:
\* from the select and from execute a callback only moves on towards its
\* deferred wg.Done(); the counter goes down only in the step in which one
\* callback performs that wg.Done(), by one; a callback that has exited never
\* exits again; and once every dispatched callback has finished the counter
\* is 0.
Finished(j) == jpc[j] \in {"release", "fin"}

C12_ExitOnEveryPath ==
    /\ [][\A j \in Jobs :
            /\ (jpc[j] = "select" /\ jpc'[j] # jpc[j]) => jpc'[j] \in {"run", "defer"}
            /\ (jpc[j] = "run" /\ jpc'[j] # jpc[j]) => jpc'[j] = "defer"
            /\ (DidExit(j)' /\ ~DidExit(j))
                  => (jpc[j] = "defer" /\ wgCount' = wgCount - 1)
            /\ DidExit(j) => DidExit(j)']_vars
    /\ [][wgCount' < wgCount =>
            (wgCount' = wgCount - 1
             /\ Cardinality({j \in Jobs : DidExit(j)' /\ ~DidExit(j)}) = 1)]_vars
    /\ []((\A j \in Jobs : jpc[j] = "idle" \/ Finished(j)) => wgCount = 0)
    /\ [](\A j \in Jobs : Finished(j) => DidEnter(j))

\* Three callbacks have finished, one after a successful command, one after
\* a failed command and one skipped because the context was cancelled, and
\* the counter is back at 0.
C12_AllPathsFinished ==
    /\ \A j \in Jobs : jpc[j] = "fin"
    /\ \E j \in Jobs : result[j] = "ok"
    /\ \E j \in Jobs : result[j] = "failed"
    /\ \E j \in Jobs : sel[j] = "cancelled"
    /\ wgCount = 0

\* The ordering half of C13: the tick source is stopped only after cancel(),
\* wg.Wait() is entered only after c.Stop() has returned, os.Exit(0) on the
\* shutdown path is taken only after wg.Wait() has returned, and none of the
\* four steps is taken a second time.
ShutdownStepsInOrder ==
    /\ [][(cronRunning /\ ~cronRunning') => (pc = "stop" /\ ctxDone)]_vars
    /\ [][(pc # "sema" /\ pc' = "sema") =>
            (pc = "wait" /\ ctxDone /\ ~cronRunning)]_vars
    /\ [][(termination' = "exit" /\ ctxDone) =>
            (pc = "exit" /\ ~cronRunning /\ wgWaiters = 0)]_vars
    /\ [][(pc # "exit" /\ pc' = "exit") => pc \in {"wait", "sema"}]_vars
    /\ [](pc \in {"cancel", "stop"} => (cronRunning /\ wgWaiters = 0))
    /\ [](pc = "cancel" => ~ctxDone)

\* C13: on the shutdown path activate, stop, drain and exit happen in this
\* order and each exactly once: the order holds at every step, and a process
\* that has ended after cancel() ended by os.Exit(0), after wg.Wait() had
\* returned.
C13_ShutdownOrderEachOnce ==
    /\ ShutdownStepsInOrder
    /\ [](EndedInShutdown => (termination = "exit" /\ ~cronRunning))

\* C14: tick dispatch is fire-and-forget.  While the tick source is started
\* and a tick is still to come, the run loop can dispatch it whatever the
\* earlier callbacks are doing (also while one of them sits in a command that
\* never returns); a dispatch touches neither the other callbacks nor the
\* counter.
C14_DispatchNeverWaits ==
    /\ []((Alive /\ cronArmed /\ cronRunning /\ (\E j \in Jobs : jpc[j] = "idle"))
            => ENABLED Cron_Tick)
    /\ [][\A j \in Jobs :
            (jpc[j] = "idle" /\ jpc'[j] # "idle")
                => /\ jpc'[j] = "add"
                   /\ \A k \in Jobs \ {j} : jpc'[k] = jpc[k]
                   /\ UNCHANGED <<wgCount, pc, sel, result>>]_vars

\* Two callbacks are executing the command at the same time, the counter is
\* 2, and the next tick has been dispatched on top of them.
C14_TwoCommandsAtOnce ==
    /\ jpc[1] = "run" /\ jpc[2] = "run" /\ jpc[3] = "add"
    /\ wgCount = 2 /\ lifecycle = "Running"

\* C15: c.Stop() ends dispatch without waiting for callbacks.  A tick is
\* dispatched only while the tick source is started, never once c.Stop() has
\* returned; c.Stop() can be taken whatever the counter is and whatever the
\* dispatched callbacks are doing, and it changes nothing of theirs; it is
\* taken once, and no stop step is taken on a stopped tick source.
StopReturned == pc \in {"wait", "sema", "exit"} \/ (pc = "done" /\ ctxDone /\ ~cronRunning)

C15_StopEndsDispatchWithoutWaiting ==
    /\ [][\A j \in Jobs :
            (jpc[j] = "idle" /\ jpc'[j] # "idle")
                => (cronRunning /\ ~StopReturned)]_vars
    /\ [](StopReturned => (~cronRunning /\ ~ENABLED Cron_Tick))
    /\ []((Alive /\ pc = "stop") => (cronRunning /\ ENABLED Stop_CronStop))
    /\ [][(pc = "stop" /\ pc' # "stop" /\ Alive')
            => (pc' = "wait" /\ UNCHANGED <<wgVars, jobVars, ctxDone>>)]_vars
    /\ [][~cronRunning => (~cronRunning' \/ pc = "start")]_vars

\* c.Stop() has returned while one callback is executing the command and
\* another has not yet reached wg.Add(1); the third tick was never dispatched.
C15_StopReturnedWhileRunning ==
    /\ pc = "wait" /\ wgCount > 0
    /\ \E j \in Jobs : jpc[j] = "run"
    /\ \E j \in Jobs : jpc[j] = "add"
    /\ \E j \in Jobs : jpc[j] = "idle"

\* C16: wg.Wait() returns only at a moment when the counter is 0 and no
\* callback is between enter and exit; called with the counter at 0 it
\* returns in that very step without registering as a waiter; with the
\* counter above 0 it blocks, and while it is blocked and not released main
\* has no step to take (there is no timeout).
C16_DrainReturnsOnlyAtZero ==
    /\ [][(pc \in {"wait", "sema"} /\ pc' = "exit")
            => (wgCount = 0 /\ wgCount' = 0 /\ InFlight = {})]_vars
    /\ [][(pc = "wait" /\ pc' # "wait" /\ Alive')
            => IF wgCount = 0
                 THEN pc' = "exit" /\ UNCHANGED wgVars
                 ELSE pc' = "sema"]_vars
    /\ []((Alive /\ pc = "sema" /\ wgSema = 0)
            => (~ENABLED Stop_WgWake /\ ~ENABLED Main_Exit /\ ~ENABLED Stop_WgWait))
    /\ []((pc = "sema" /\ wgSema = 0) => wgCount > 0 \/ \E j \in Jobs : jpc[j] = "release")

\* wg.Wait() blocked on two callbacks and has returned after both exited.
C16_DrainWaitedAndReturned ==
    /\ pc = "exit" /\ wgCount = 0 /\ wgSema = 0
    /\ Cardinality({j \in Jobs : sel[j] = "default" /\ jpc[j] = "fin"}) >= 2

\* wg.Wait() was called with the counter at 0 and returned at once.
DrainReturnedAtOnce ==
    /\ pc = "exit" /\ \A j \in Jobs : jpc[j] = "idle"

\* C17: wg.Wait() is used in its supported way.  It is called once, after
\* c.Stop() has returned; and no callback executes wg.Add(1) while main is
\* inside wg.Wait() or after wg.Wait() has returned, in particular no callback
\* dispatched before c.Stop().
DrainCalledOnceAfterStop ==
    /\ [][(pc = "wait" /\ pc' # "wait" /\ Alive') => (~cronRunning /\ ctxDone)]_vars
    /\ [][pc' = "wait" => pc \in {"stop", "wait"}]_vars
    /\ [][(pc \in {"sema", "exit"}) => (pc' # "wait")]_vars

EnterStep(j) == jpc[j] = "add" /\ jpc'[j] # "add"

C17_NoEnterOnceDrainBegan ==
    /\ DrainCalledOnceAfterStop
    /\ [][\A j \in Jobs : EnterStep(j) => pc \notin {"sema", "exit"}]_vars

\* C18: once shutdown has begun a further signal changes nothing but the
\* signal channel (where it is buffered or dropped): main's position, the
\* counter, the callbacks, the tick source and the way the process ends are
\* left alone.  The process is never ended by a signal after the handler is
\* registered, wg.Wait() returns only with the counter at 0 however many
\* signals arrived, and a process that exits after shutdown leaves no command
\* running and exits with status 0.
C18_LateSignalsIgnored ==
    /\ [][(lifecycle = "ShuttingDown" /\ nSignals' # nSignals)
            => (/\ lifecycle' = "ShuttingDown"
                /\ UNCHANGED <<pc, endVars, ctxDone, wgVars, jobVars, cronVars,
                               notifyOn>>)]_vars
    /\ [](termination = "signal" => (~notifyOn /\ ~ctxDone))
    /\ [][(pc \in {"wait", "sema"} /\ pc' = "exit") => wgCount = 0]_vars
    /\ []((ctxDone /\ termination = "exit")
            => (exitStatus = 0 /\ \A j \in Jobs : jpc[j] # "run"))

\* A second signal has arrived while main is blocked in wg.Wait() and a
\* command is still running.
C18_SignalDuringDrain ==
    /\ lifecycle = "ShuttingDown" /\ pc = "sema"
    /\ nSignals = 2 /\ Len(sigChan) = 1
    /\ \E j \in Jobs : jpc[j] = "run"

\* The process has exited with status 0 after a second signal arrived during
\* shutdown, having waited for a command.
LateSignalThenExitZero ==
    /\ termination = "exit" /\ exitStatus = 0 /\ ctxDone
    /\ nSignals = 2 /\ Len(sigChan) = 1
    /\ \E j \in Jobs : sel[j] = "default" /\ jpc[j] = "fin"
====
